---------------------------- MODULE Spec2Model ----------------------------
(***************************************************************************)
(* Model of ci/jjb/scripts/vco_dr_config.py: the disaster-recovery role    *)
(* orchestration of two orchestrator nodes (establish, break, revert,      *)
(* promote), its login gate, its role polling and its edge-count monitor.  *)
(*                                                                         *)
(* The remote nodes (edgeops_vco.Vco) are the environment: every remote    *)
(* call returns a value the node could return or raises an error the       *)
(* script names.  Time is the script's clock: it advances at time.sleep    *)
(* only, and every deadline is kept as the quantity the code compares      *)
(* (time.time() - start_time, end_time - time.monotonic()).                *)
(***************************************************************************)
EXTENDS Integers, Sequences, FiniteSets, TLC

VARIABLES
    (* the command line *)
    action, hasSecondary, force, ipsValid,
    (* control point and exit status of the process *)
    pc, exitCode, unhandled,
    (* the login gate, run pass by pass *)
    authSt,
    (* _wait_for_role_change and its caller *)
    wfrSite, wfrNode, wfrTarget, roleRemain, wfrRet, wfrEntry,
    (* other locals of the workflows *)
    estRemain, promIter, results, cfgOut, pre_count, monSt,
    (* the remote nodes *)
    role, role0, pending, drState, users, props, clients, edges,
    (* what the nodes have been asked: commands in order, reads as a set,
       and how the last login gate on each node ended *)
    cmds, reads, gate

argVars  == <<action, hasSecondary, force, ipsValid>>
ctlVars  == <<pc, exitCode, unhandled>>
waitVars == <<wfrSite, wfrNode, wfrTarget, roleRemain, wfrRet, wfrEntry>>
locVars  == <<estRemain, promIter, results, cfgOut, pre_count, monSt>>
nodeVars == <<role, role0, pending, drState, users, props, clients, edges>>
logVars  == <<cmds, reads, gate>>
vars == <<argVars, ctlVars, authSt, waitVars, locVars, nodeVars, logVars>>

-----------------------------------------------------------------------------
(* Roles and errors *)

ACTIVE            == "ACTIVE"
STANDALONE        == "STANDALONE"
STANDBY_CANDIDATE == "STANDBY_CANDIDATE"
STANDBY           == "STANDBY"
UNCONFIGURED      == "UNCONFIGURED"
ZOMBIE            == "ZOMBIE"

\* class VcoRole: the five roles the script names
VcoRole == {ACTIVE, STANDALONE, STANDBY_CANDIDATE, STANDBY, UNCONFIGURED}
\* what a node can report: the five roles, and ZOMBIE (a former active)
RemoteRoles == VcoRole \cup {ZOMBIE}

VcoRequestError     == "VcoRequestError"
VcoResponseEmpty    == "VcoResponseEmpty"
VcoReplicationError == "VcoReplicationError"
JSONDecodeError     == "JSONDecodeError"
VcoResponseError    == "VcoResponseError"
\* the errors a read of a node can raise
ReadErrors == {VcoRequestError, VcoResponseEmpty, VcoReplicationError, JSONDecodeError}

\* the two nodes of a run: veco is -o/--orchestrator, secondary is
\* -s/--secondary-orchestrator (in promote: the peer the replication status names)
Nodes == {"veco", "secondary"}
Peer(n) == IF n = "veco" THEN "secondary" ELSE "veco"

-----------------------------------------------------------------------------
(* check_auth_status: the login gate *)

LOGIN_MAX_WAIT_TIME == 120
LOGIN_RETRY_SLEEP   == 10
AUTH_RETRY_SLEEP    == 5

\* What the node answers in one pass of the gate's loop:
\*   "login_failed"      operator_login_password raises VcoRequestError
\*   "not_authenticated" login returns, check_operator_authenticated is False
\*   "authenticated"     login returns, check_operator_authenticated is True
\*   an error            login returns, check_operator_authenticated raises it
AuthAnswers == {"login_failed", "not_authenticated", "authenticated"} \cup ReadErrors

\* The gate at its call: no time elapsed, no login attempted.
\*   phase    "loop" | "True" | "False" (returned) | "raised"
\*   elapsed  time.time() - start_time
\*   attempts logins attempted, reqErrs those that raised VcoRequestError,
\*   gap      time since the last attempt, spaced  every two consecutive
\*            attempts so far were LOGIN_RETRY_SLEEP apart
AuthStart ==
    [phase |-> "loop", elapsed |-> 0, attempts |-> 0, reqErrs |-> 0,
     gap |-> 0, spaced |-> TRUE, err |-> "none"]

AuthIdle == [AuthStart EXCEPT !.phase = "idle"]

\* the deadline test of the loop: time.time() - start_time >= max_time
AuthDeadlineLate(st) == st.elapsed > 120
AuthDeadline(st) == st.elapsed >= LOGIN_MAX_WAIT_TIME

\* One pass of `while True` (lines 76-89) with the node answering `a`.
check_auth_pass(st, a) ==
    IF AuthDeadline(st) THEN [st EXCEPT !.phase = "False"]
    ELSE LET tried == [st EXCEPT !.attempts = @ + 1,
                                 !.spaced = @ /\ (st.attempts = 0 \/ st.gap = LOGIN_RETRY_SLEEP)]
         IN CASE a = "login_failed" ->
                   [tried EXCEPT !.reqErrs = @ + 1,
                                 !.elapsed = @ + LOGIN_RETRY_SLEEP,
                                 !.gap = LOGIN_RETRY_SLEEP]
              [] a = "authenticated" ->
                   [tried EXCEPT !.phase = "True", !.gap = 0]
              [] a = "not_authenticated" ->
                   [tried EXCEPT !.elapsed = @ + AUTH_RETRY_SLEEP,
                                 !.gap = AUTH_RETRY_SLEEP]
              [] OTHER ->
                   [tried EXCEPT !.phase = "raised", !.err = a, !.gap = 0]

\* Every way a call of the gate can end: the passes run to a return or a raise.
RECURSIVE AuthRuns(_, _)
AuthRuns(frontier, seen) ==
    IF frontier = {} THEN seen
    ELSE LET next == {check_auth_pass(st, a) :
                         st \in {s \in frontier : s.phase = "loop"}, a \in AuthAnswers}
         IN AuthRuns(next \ seen, seen \cup next)

\* check_auth_status(vco, user, password) as one call: how it ends and how
\* long it took.  ret is "True", "False" or "raised" (with err).
check_auth_status ==
    {[ret |-> s.phase, err |-> s.err, elapsed |-> s.elapsed] :
        s \in {x \in AuthRuns({AuthStart}, {AuthStart}) : x.phase # "loop"}}

\* The calls of the gate a workflow is run against: the node lets the gate
\* through within MaxGateRetries retries, or keeps it to its deadline.
MaxGateRetries == 2
GateOutcomes ==
    {g \in check_auth_status :
        g.ret = "False" \/ g.elapsed <= MaxGateRetries * AUTH_RETRY_SLEEP}

\* The call check_auth_status(n, ...) a workflow makes (lines 126, 403, 429,
\* 452, 595), ending as g: what the last gate on each node came to.
check_auth_skipped(n, g) == gate
check_auth_on(n, g) == [gate EXCEPT ![n] = g.ret]

-----------------------------------------------------------------------------
(* Python's float division, as the monitor uses it: int / float >= int *)

\* Naturals too wide for a machine word, as little-endian digits in base 2^15.
Base == 2^15

RECURSIVE BigMul(_, _, _)
\* x * k + carry, for a digit-sized k
BigMul(x, k, carry) ==
    IF x = <<>> THEN (IF carry = 0 THEN <<>> ELSE <<carry>>)
    ELSE LET t == Head(x) * k + carry
         IN <<t % Base>> \o BigMul(Tail(x), k, t \div Base)

RECURSIVE BigAdd(_, _, _)
BigAdd(x, y, carry) ==
    IF x = <<>> /\ y = <<>> THEN (IF carry = 0 THEN <<>> ELSE <<carry>>)
    ELSE LET a == IF x = <<>> THEN 0 ELSE Head(x)
             b == IF y = <<>> THEN 0 ELSE Head(y)
             t == a + b + carry
         IN <<t % Base>> \o BigAdd(IF x = <<>> THEN x ELSE Tail(x),
                                   IF y = <<>> THEN y ELSE Tail(y), t \div Base)

RECURSIVE Pow2(_)
Pow2(e) == IF e = 0 THEN 1 ELSE 2 * Pow2(e - 1)

\* x * 2^bits: whole digits are shifted in, the rest is a digit-sized factor
BigShl(x, bits) ==
    [i \in 1..(bits \div 15) |-> 0] \o BigMul(x, Pow2(bits % 15), 0)

RECURSIVE BigTrim(_)
BigTrim(x) ==
    IF x # <<>> /\ x[Len(x)] = 0 THEN BigTrim(SubSeq(x, 1, Len(x) - 1)) ELSE x

RECURSIVE BigGeqN(_, _, _)
\* x >= y for trimmed x, y of equal length i, compared from the top digit
BigGeqN(x, y, i) ==
    IF i = 0 THEN TRUE
    ELSE IF x[i] # y[i] THEN x[i] > y[i] ELSE BigGeqN(x, y, i - 1)

BigGeq(x, y) ==
    LET a == BigTrim(x)
        b == BigTrim(y)
    IN IF Len(a) # Len(b) THEN Len(a) > Len(b) ELSE BigGeqN(a, b, Len(a))

BigOf(n) == BigTrim(<<n % Base, (n \div Base) % Base, n \div (Base * Base)>>)

RECURSIVE Log2(_)
\* floor(log2(n)) for n >= 1
Log2(n) == IF n < 2 THEN 0 ELSE 1 + Log2(n \div 2)

\* The binary64 nearest 0.95 is Float095 / 2^52 and the one nearest 0.9 is
\* Float09 / 2^53 (float.as_integer_ratio()), written in base-2^15 digits.
Float095    == <<13107, 26214, 19660, 121>>
Float095Exp == 52
Float09     == <<19661, 6553, 13107, 230>>
Float09Exp  == 53

\* a / d >= b in binary64 for integers 0 <= a, b < 2^31 and d = P / 2^q:
\* the quotient a * 2^q / P is rounded to the nearest double (ties to even), and
\* it rounds to b or above iff it is at least b - h, h half the gap below b:
\* 2^(e-54) when b = 2^e and 2^(e-53) otherwise.  With h = 2^(-k) that is
\*   a * 2^(q+k) + P >= b * P * 2^k.
FloatDivGeq(a, P, q, b) ==
    IF b = 0 THEN TRUE
    ELSE LET e == Log2(b)
             k == IF b = Pow2(e) THEN 54 - e ELSE 53 - e
             bP == BigAdd(BigMul(P, b % Base, 0), <<0>> \o BigMul(P, b \div Base, 0), 0)
         IN BigGeq(BigAdd(BigShl(BigOf(a), q + k), P, 0), BigShl(bP, k))

-----------------------------------------------------------------------------
(* The remote nodes *)

UNCONFIGURED_DR == "UNCONFIGURED"
STANDBY_RUNNING == "STANDBY_RUNNING"
\* any drState that is neither of the two the code names (line 188)
OTHER_DR == "OTHER"
DrStates == {UNCONFIGURED_DR, STANDBY_RUNNING, OTHER_DR}

\* what get_vco_role() can give on node n: its role now, or an error
RoleReads(n) == {role[n]} \cup ReadErrors

\* the role a role-change command asks the node to take
CmdTarget(cmd) ==
    CASE cmd = "set_vco_role_standby"    -> STANDBY
      [] cmd = "set_vco_role_standalone" -> STANDALONE
      [] cmd = "promote_vco_to_active"   -> STANDALONE
      [] OTHER                           -> "none"

\* The node completes a role change it accepted.  Nothing obliges it to.
RemoteConverges(n) ==
    /\ pc # "exit"
    /\ pending[n] # "none"
    /\ role' = [role EXCEPT ![n] = pending[n]]
    /\ pending' = [pending EXCEPT ![n] = "none"]
    /\ drState' = IF pending[n] \in {STANDALONE, ZOMBIE}
                  THEN [drState EXCEPT ![n] =
                           IF pending[n] = ZOMBIE THEN OTHER_DR ELSE UNCONFIGURED_DR]
                  ELSE drState
    /\ UNCHANGED <<argVars, ctlVars, authSt, waitVars, locVars, role0, users, props,
                   clients, edges, logVars>>

-----------------------------------------------------------------------------
(* _configure_role: the role state machine *)

\* lines 96-112: what _configure_role decides once it has read current_role.
\* cmd is the command it issues, "none" when it issues none.
configure_role_any(current, target) ==
    IF target = current THEN [ret |-> TRUE, cmd |-> "none"]
    ELSE IF target = STANDBY
         THEN [ret |-> TRUE, cmd |-> "set_vco_role_standby"]
         ELSE IF target = STANDALONE
              THEN [ret |-> TRUE, cmd |-> "set_vco_role_standalone"]
              ELSE [ret |-> FALSE, cmd |-> "none"]
configure_role_denied(current, target) ==
    IF target = current THEN [ret |-> TRUE, cmd |-> "none"]
    ELSE [ret |-> FALSE, cmd |-> "none"]
configure_role(current, target) ==
    IF target = current THEN [ret |-> TRUE, cmd |-> "none"]
    ELSE IF target = STANDBY /\ current \in {STANDALONE, UNCONFIGURED}
         THEN [ret |-> TRUE, cmd |-> "set_vco_role_standby"]
         ELSE IF target = STANDALONE /\ current \in {ACTIVE, STANDBY, UNCONFIGURED}
              THEN [ret |-> TRUE, cmd |-> "set_vco_role_standalone"]
              ELSE [ret |-> FALSE, cmd |-> "none"]

\* what a role-change command can answer: it returns, or raises VcoRequestError
CmdAnswers == {"ok", VcoRequestError}

NoCfg == [node |-> "none", current |-> "none", target |-> "none",
          ret |-> "none", err |-> "none", cmd |-> "none"]

\* _configure_role(veco, role) as one call (lines 92-112): the read of the
\* role answers rr, the command (if one is issued) answers ca.
\* ret is "True", "False" or "raised" (with err); cmd is the command issued.
ConfigureRoleCall(n, target, rr, ca) ==
    IF rr \in ReadErrors
    THEN [NoCfg EXCEPT !.node = n, !.target = target, !.ret = "raised", !.err = rr]
    ELSE LET d == configure_role(rr, target)
         IN IF d.cmd # "none" /\ ca # "ok"
            THEN [NoCfg EXCEPT !.node = n, !.current = rr, !.target = target,
                               !.ret = "raised", !.err = ca, !.cmd = d.cmd]
            ELSE [NoCfg EXCEPT !.node = n, !.current = rr, !.target = target,
                               !.ret = IF d.ret THEN "True" ELSE "False",
                               !.cmd = d.cmd]

\* The node and the logs after that call.  A command that raised is taken not
\* to have been applied.
AfterConfigureRole(c) ==
    /\ cfgOut' = c
    /\ pending' = IF c.cmd = "none" \/ c.ret = "raised" THEN pending
                  ELSE [pending EXCEPT ![c.node] = CmdTarget(c.cmd)]
    /\ cmds' = IF c.cmd = "none" THEN cmds ELSE Append(cmds, <<c.node, c.cmd, "none">>)
    /\ reads' = reads \cup {<<c.node, "get_vco_role">>}

-----------------------------------------------------------------------------
(* Process plumbing *)

\* sys.exit(code)
Exit(code) == pc' = "exit" /\ exitCode' = code /\ unhandled' = "none"
\* an exception no handler catches: the interpreter prints it and exits 1
Abort(err) == pc' = "exit" /\ exitCode' = 1 /\ unhandled' = err
Goto(label) == pc' = label /\ exitCode' = exitCode /\ unhandled' = unhandled

NoWait == /\ roleRemain = 0 /\ wfrNode = "none" /\ wfrTarget = "none"
          /\ wfrRet = "none" /\ wfrEntry = 0 /\ wfrSite = "none"
ClearWait == /\ roleRemain' = 0 /\ wfrNode' = "none" /\ wfrTarget' = "none"
             /\ wfrRet' = "none" /\ wfrEntry' = 0 /\ wfrSite' = "none"

ROLE_CHANGE_MAX_WAIT_TIME == 180
ROLE_POLL_SLEEP == 5

\* the call _wait_for_role_change(n, target, ...) from `site`: line 119
StartWait(site, n, target) ==
    /\ pc' = "wfr" /\ exitCode' = exitCode /\ unhandled' = unhandled
    /\ wfrSite' = site /\ wfrNode' = n /\ wfrTarget' = target
    /\ roleRemain' = ROLE_CHANGE_MAX_WAIT_TIME
    /\ wfrRet' = "none" /\ wfrEntry' = 0

-----------------------------------------------------------------------------
(* _wait_for_role_change *)

\* the errors the loop absorbs (line 129)
WaitCatchesAll == ReadErrors
WaitCatches == {VcoRequestError, VcoResponseEmpty, VcoReplicationError}

\* the loop test (line 120): time.monotonic() < end_time
WaitOpenLate(remain) == remain >= 0
WaitOpen(remain) == remain > 0

\* the error a pass meets (lines 125-128): the gate's, raised before the role
\* is read, or the read's; "none" when both calls return
WaitPassError(g, rr) ==
    IF g.ret = "raised" THEN g.err
    ELSE IF rr \in ReadErrors THEN rr ELSE "none"

\* One pass of the loop begun before the deadline (lines 121-132): the sleep,
\* the login gate ending as g, the read of the role answering rr.  The gate's
\* result is not looked at.  An error the loop does not absorb reaches no
\* handler of the callers either (revert_veco catches VcoRequestError only).
WaitPassOn(g, rr) ==
    LET left == roleRemain - ROLE_POLL_SLEEP - g.elapsed
        err  == WaitPassError(g, rr)
    IN /\ gate' = check_auth_on(wfrNode, g)
       /\ reads' = reads \cup {<<wfrNode, "login">>}
                         \cup (IF g.ret = "raised" THEN {}
                               ELSE {<<wfrNode, "get_vco_role">>})
       /\ roleRemain' = left
       /\ CASE err \in WaitCatches ->
                 Goto("wfr") /\ UNCHANGED <<wfrRet, wfrEntry>>
            [] err # "none" ->
                 Abort(err) /\ UNCHANGED <<wfrRet, wfrEntry>>
            [] rr = wfrTarget ->
                 Goto("wfr_ret") /\ wfrRet' = "True" /\ wfrEntry' = roleRemain
            [] OTHER ->
                 Goto("wfr") /\ UNCHANGED <<wfrRet, wfrEntry>>

\* One pass of the loop (lines 120-132), or its end (lines 134-135)
WaitForRolePass ==
    /\ pc = "wfr"
    /\ UNCHANGED <<argVars, authSt, wfrSite, wfrNode, wfrTarget, locVars, nodeVars, cmds>>
    /\ IF ~WaitOpen(roleRemain)
       THEN /\ Goto("wfr_ret")
            /\ wfrRet' = "False"
            /\ UNCHANGED <<roleRemain, wfrEntry, reads, gate>>
       ELSE \E g \in GateOutcomes, rr \in RoleReads(wfrNode) : WaitPassOn(g, rr)

-----------------------------------------------------------------------------
(* main *)

\* lines 587-613: the login gate on the primary, the session check, the dispatch
Main ==
    /\ pc = "main"
    /\ UNCHANGED <<argVars, authSt, waitVars, locVars, nodeVars, cmds>>
    /\ \E g \in GateOutcomes, a \in {"True", "False"} \cup ReadErrors :
         /\ gate' = check_auth_on("veco", g)
         /\ reads' = reads \cup {<<"veco", "login">>}
         /\ CASE g.ret = "raised" /\ g.err = VcoRequestError -> Exit(1)
              [] g.ret = "raised" -> Abort(g.err)
              [] a \in ReadErrors -> Abort(a)
              [] a = "False"      -> Exit(1)
              [] OTHER            -> Goto(action)

-----------------------------------------------------------------------------
(* break *)

\* break_handler up to the call of break_veco (lines 394-407), and line 307
BreakHandler ==
    /\ pc = "break"
    /\ UNCHANGED <<argVars, authSt, waitVars, estRemain, promIter, cfgOut, pre_count,
                   monSt, nodeVars, cmds>>
    /\ IF hasSecondary
       THEN \E g \in GateOutcomes :
              /\ gate' = check_auth_on("secondary", g)
              /\ reads' = reads \cup {<<"secondary", "login">>}
              /\ CASE g.ret = "raised" /\ g.err = VcoRequestError ->
                        Exit(1) /\ UNCHANGED results
                   [] g.ret = "raised" ->
                        Abort(g.err) /\ UNCHANGED results
                   [] OTHER ->
                        Goto("break_primary") /\ results' = [n \in {"veco"} |-> FALSE]
       ELSE /\ Goto("break_primary")
            /\ results' = [n \in {"veco"} |-> FALSE]
            /\ UNCHANGED <<reads, gate>>

\* line 321: the secondary is broken after the primary when one was given
BreakSite(site) == IF site = "break_primary" /\ hasSecondary THEN "break_secondary" ELSE "break_done"

\* break_(veco), lines 309-317, up to the wait it starts
BreakNode ==
    /\ pc \in {"break_primary", "break_secondary"}
    /\ UNCHANGED <<argVars, authSt, estRemain, promIter, results, pre_count, monSt,
                   role, role0, drState, users, props, clients, edges, gate>>
    /\ LET n == IF pc = "break_primary" THEN "veco" ELSE "secondary"
       IN \E rr \in RoleReads(n), ca \in CmdAnswers :
            LET c == ConfigureRoleCall(n, STANDALONE, rr, ca)
            IN /\ AfterConfigureRole(c)
               /\ CASE c.ret = "raised" -> Abort(c.err) /\ UNCHANGED waitVars
                    [] c.ret = "True"   -> StartWait(pc, n, STANDALONE)
                    [] OTHER            -> Goto(BreakSite(pc)) /\ UNCHANGED waitVars

\* lines 313-317: the wait's result is the node's entry of the map
BreakAfterWait ==
    /\ pc = "wfr_ret" /\ wfrSite \in {"break_primary", "break_secondary"}
    /\ UNCHANGED <<argVars, authSt, estRemain, promIter, cfgOut, pre_count, monSt,
                   nodeVars, logVars>>
    /\ results' = [n \in DOMAIN results \cup {wfrNode} |->
                     IF n = wfrNode THEN wfrRet = "True" ELSE results[n]]
    /\ Goto(BreakSite(wfrSite))
    /\ ClearWait

\* lines 324-330 and 407-411
BreakDone ==
    /\ pc = "break_done"
    /\ UNCHANGED <<argVars, authSt, waitVars, locVars, nodeVars, logVars>>
    /\ IF \A n \in DOMAIN results : results[n] THEN Exit(0) ELSE Exit(1)

-----------------------------------------------------------------------------
(* revert *)

RevertSites == {"revert", "est_revert1", "est_revert2"}

\* what the caller of revert_veco does with its result: revert_handler
\* (lines 479-484), establish_handler (lines 472-474)
RevertReturnsDone(site, ok) ==
    CASE site = "revert"      -> Exit(0)
      [] site = "est_revert1" -> Goto("est_revert2")
      [] OTHER                -> Exit(3)
RevertReturns(site, ok) ==
    CASE site = "revert"      -> IF ok THEN Exit(0) ELSE Exit(4)
      [] site = "est_revert1" -> Goto("est_revert2")
      [] OTHER                -> Exit(3)

\* revert_veco (lines 333-348) up to the wait it starts: the role is read
\* twice, by revert_veco and by _configure_role
RevertNode ==
    /\ pc \in RevertSites
    /\ UNCHANGED <<argVars, authSt, estRemain, promIter, results, pre_count, monSt,
                   role, role0, drState, users, props, clients, edges, gate>>
    /\ LET n == IF pc = "est_revert2" THEN "secondary" ELSE "veco"
       IN \E r1 \in RoleReads(n), rr \in RoleReads(n), ca \in CmdAnswers :
            IF r1 \in {ACTIVE, STANDBY, UNCONFIGURED}
            THEN LET c == ConfigureRoleCall(n, STANDALONE, rr, ca)
                 IN /\ AfterConfigureRole(c)
                    /\ CASE c.ret = "raised" /\ c.err = VcoRequestError ->
                              RevertReturns(pc, FALSE) /\ UNCHANGED waitVars
                         [] c.ret = "raised" -> Abort(c.err) /\ UNCHANGED waitVars
                         [] c.ret = "True"   -> StartWait(pc, n, STANDALONE)
                         [] OTHER            -> RevertReturns(pc, FALSE) /\ UNCHANGED waitVars
            ELSE /\ reads' = reads \cup {<<n, "get_vco_role">>}
                 /\ UNCHANGED <<cfgOut, pending, cmds, waitVars>>
                 /\ CASE r1 = VcoRequestError -> RevertReturns(pc, FALSE)
                      [] r1 \in ReadErrors    -> Abort(r1)
                      [] OTHER                -> RevertReturns(pc, FALSE)

\* line 344: the wait's result is revert_veco's
RevertAfterWait ==
    /\ pc = "wfr_ret" /\ wfrSite \in RevertSites
    /\ UNCHANGED <<argVars, authSt, locVars, nodeVars, logVars>>
    /\ RevertReturns(wfrSite, wfrRet = "True")
    /\ ClearWait

-----------------------------------------------------------------------------
(* establish *)

ESTABLISH_WAIT == 300
ESTABLISH_POLL_SLEEP == 5

\* primary_veco_properties (lines 38-67), in the order of the list
PropertyNames ==
    <<"vco.disasterRecovery.standbyRestartStateSecs",
      "vco.disasterRecovery.transientErrorToleranceSecs",
      "vco.disasterRecovery.allowedStandbySecsBehindActive">>

\* establish_handler up to the preparation (lines 414-436).  ipsValid stands
\* for: --fqdn was given, or both --primary-ip and --secondary-ip parse.
EstablishHandler ==
    /\ pc = "establish"
    /\ UNCHANGED <<argVars, authSt, waitVars, locVars, nodeVars, cmds>>
    /\ IF ~hasSecondary THEN Exit(2) /\ UNCHANGED <<reads, gate>>
       ELSE IF ~ipsValid THEN Exit(6) /\ UNCHANGED <<reads, gate>>
       ELSE \E g \in GateOutcomes, a \in {"True", "False"} \cup ReadErrors :
              /\ gate' = check_auth_on("secondary", g)
              /\ reads' = reads \cup {<<"secondary", "login">>}
              /\ CASE g.ret = "raised" /\ g.err = VcoRequestError -> Exit(1)
                   [] g.ret = "raised" -> Abort(g.err)
                   [] a \in ReadErrors -> Abort(a)
                   [] a = "False"      -> Exit(1)
                   [] OTHER            -> Goto("est_prepare")

\* lines 280-283: the roles of the secondary the preparation is made from
PreparableAny == RemoteRoles \ {STANDBY}
Preparable == {UNCONFIGURED, STANDALONE}

\* configure_vecos_and_assign_standby: the read of the secondary's role and the
\* branch on it (lines 277-283, 296-302), and lines 438-448 of the caller
EstablishPrepare ==
    /\ pc = "est_prepare"
    /\ UNCHANGED <<argVars, authSt, waitVars, promIter, results, cfgOut, pre_count,
                   monSt, nodeVars, cmds, gate>>
    /\ reads' = reads \cup {<<"secondary", "get_vco_role">>}
    /\ \E rr \in RoleReads("secondary") :
         CASE rr \in ReadErrors -> Abort(rr) /\ UNCHANGED estRemain
           [] rr \in Preparable ->
                Goto("est_user_veco") /\ UNCHANGED estRemain
           [] rr = STANDBY -> Goto("est_poll") /\ estRemain' = ESTABLISH_WAIT
           [] OTHER -> Exit(1) /\ UNCHANGED estRemain

create_db_replication_user_only(n, state) ==
    <<<<n, "create_operator_superuser", "none">>>>

\* _create_db_replication_user (lines 153-167) on one node; a node's user is
\* "absent", "other" (there, with some other password) or "supplied"
create_db_replication_user(n, state) ==
    IF state = "absent"
    THEN <<<<n, "create_operator_superuser", "none">>>>
    ELSE <<<<n, "delete_operator_user", "none">>, <<n, "create_operator_superuser", "none">>>>

\* lines 284-285.  Any call of the step can raise VcoRequestError, which no
\* handler catches: get_user_id (failAt = 0) or the failAt-th command, taken
\* not to have been applied; failAt past the last command: none raises.
EstablishUser ==
    /\ pc \in {"est_user_veco", "est_user_secondary"}
    /\ UNCHANGED <<argVars, authSt, waitVars, locVars, role, role0, pending, drState,
                   props, clients, edges, gate>>
    /\ LET n == IF pc = "est_user_veco" THEN "veco" ELSE "secondary"
           calls == create_db_replication_user(n, users[n])
       IN /\ reads' = reads \cup {<<n, "get_user_id">>}
          /\ \E failAt \in 0..(Len(calls) + 1) :
               IF failAt > Len(calls)
               THEN /\ cmds' = cmds \o calls
                    /\ users' = [users EXCEPT ![n] = "supplied"]
                    /\ Goto(IF pc = "est_user_veco" THEN "est_user_secondary"
                            ELSE "est_props")
               ELSE /\ cmds' = cmds \o SubSeq(calls, 1, failAt)
                    /\ users' = IF failAt = 2 THEN [users EXCEPT ![n] = "absent"]
                                ELSE users
                    /\ Abort(VcoRequestError)

RECURSIVE update_or_create_properties_always(_, _, _)
update_or_create_properties_always(n, have, i) ==
    IF i > Len(have) THEN <<>>
    ELSE (CASE have[i] = "absent"  -> <<<<n, "create_system_property", PropertyNames[i]>>>>
            [] OTHER               -> <<<<n, "update_system_property", PropertyNames[i]>>>>)
         \o update_or_create_properties_always(n, have, i + 1)

RECURSIVE update_or_create_properties(_, _, _)
\* _update_or_create_properties (lines 138-150): the calls made for properties
\* i.. of the list; a property is "absent", "differs" or "same" on the node
update_or_create_properties(n, have, i) ==
    IF i > Len(have) THEN <<>>
    ELSE (CASE have[i] = "absent"  -> <<<<n, "create_system_property", PropertyNames[i]>>>>
            [] have[i] = "differs" -> <<<<n, "update_system_property", PropertyNames[i]>>>>
            [] OTHER               -> <<>>)
         \o update_or_create_properties(n, have, i + 1)

\* _update_or_create_properties(n, primary) as one call, the script going on
\* at `next` when it returns.  The read of property failAt can raise
\* VcoRequestError, which no handler catches, the properties before it
\* written; failAt past the last property: none raises.
UpsertProps(n, next) ==
    /\ reads' = reads \cup {<<n, "get_system_property">>}
    /\ \E failAt \in 1..(Len(props) + 1) :
         /\ cmds' = cmds \o update_or_create_properties(n, SubSeq(props, 1, failAt - 1), 1)
         /\ props' = [i \in DOMAIN props |-> IF i < failAt THEN "same" ELSE props[i]]
         /\ IF failAt > Len(props) THEN Goto(next) ELSE Abort(VcoRequestError)

\* lines 287-288; the secondary's list is empty
EstablishProps ==
    /\ pc = "est_props"
    /\ UNCHANGED <<argVars, authSt, waitVars, locVars, role, role0, pending, drState,
                   users, clients, edges, gate>>
    /\ UpsertProps("veco", "est_assign")

\* line 290: force or not secondary_veco.get_client_count()
ClientsAllowAlways == TRUE
ClientsAllow == force \/ clients = 0

\* lines 290-295 and 438-448
EstablishAssign ==
    /\ pc = "est_assign"
    /\ UNCHANGED <<argVars, authSt, waitVars, promIter, results, pre_count, monSt,
                   role, role0, drState, users, props, clients, edges, gate>>
    /\ IF ClientsAllow
       THEN \E rr \in RoleReads("secondary"), ca \in CmdAnswers :
              LET c == ConfigureRoleCall("secondary", STANDBY, rr, ca)
              IN /\ AfterConfigureRole(c)
                 /\ CASE c.ret = "raised" -> Abort(c.err) /\ UNCHANGED estRemain
                      [] c.ret = "True" ->
                           Goto("est_poll") /\ estRemain' = ESTABLISH_WAIT
                      [] OTHER -> Exit(1) /\ UNCHANGED estRemain
       ELSE /\ Exit(1)
            /\ UNCHANGED <<estRemain, cfgOut, pending, cmds>>
            /\ reads' = reads \cup {<<"secondary", "get_client_count">>}

\* lines 449-452: what is left of the window after a pass that slept and ran
\* the gate g
PollLeftStuck(remain, g) == remain
PollLeft(remain, g) == remain - ESTABLISH_POLL_SLEEP - g.elapsed

\* lines 452-454: the gate returned, or raised (g), and the role read gave rr
PollDoneAny(g, rr) == TRUE
PollDone(g, rr) == g.ret # "raised" /\ rr = STANDBY

\* the poll for the secondary to report STANDBY (lines 448-464); it absorbs
\* every error a read can raise
EstablishPoll ==
    /\ pc = "est_poll"
    /\ UNCHANGED <<argVars, authSt, waitVars, promIter, results, cfgOut, pre_count,
                   monSt, nodeVars, cmds>>
    /\ IF ~(estRemain > 0)
       THEN Exit(3) /\ UNCHANGED <<estRemain, reads, gate>>
       ELSE \E g \in GateOutcomes, rr \in RoleReads("secondary") :
              /\ gate' = check_auth_on("secondary", g)
              /\ reads' = reads \cup {<<"secondary", "login">>}
                                \cup (IF g.ret = "raised" THEN {}
                                      ELSE {<<"secondary", "get_vco_role">>})
              /\ IF PollDone(g, rr)
                 THEN Goto("est_dr") /\ estRemain' = 0
                 ELSE /\ Goto("est_poll")
                      /\ estRemain' = PollLeft(estRemain, g)

\* configure_dr (lines 375-391) and what establish_handler does with its
\* result (lines 466-471).  The call takes effect as it returns: the primary
\* is ACTIVE and both nodes replicate.
EstablishConfigureDr ==
    /\ pc = "est_dr"
    /\ UNCHANGED <<argVars, authSt, waitVars, locVars, role0, pending, users, props,
                   clients, edges, gate>>
    /\ \E rr \in RoleReads("veco"), rs \in {"ok"} \cup ReadErrors,
          ca \in {"ok", VcoResponseError, VcoRequestError} :
         /\ reads' = reads \cup {<<"veco", "get_vco_role">>}
                           \cup (IF rr \in ReadErrors \/ rr = ACTIVE THEN {}
                                 ELSE {<<"secondary", "get_replication_status_raw">>})
         /\ CASE rr \in ReadErrors -> Abort(rr) /\ UNCHANGED <<role, drState, cmds>>
              [] rr = ACTIVE -> Goto("est_revert1") /\ UNCHANGED <<role, drState, cmds>>
              [] rs # "ok" -> Abort(rs) /\ UNCHANGED <<role, drState, cmds>>
              [] OTHER ->
                   /\ cmds' = Append(cmds, <<"veco", "configure_veco_for_dr", "none">>)
                   /\ CASE ca = VcoResponseError ->
                             Goto("est_revert1") /\ UNCHANGED <<role, drState>>
                        [] ca = VcoRequestError ->
                             Abort(ca) /\ UNCHANGED <<role, drState>>
                        [] OTHER ->
                             /\ Exit(0)
                             /\ role' = [role EXCEPT !["veco"] = ACTIVE]
                             /\ drState' = [n \in Nodes |-> STANDBY_RUNNING]

-----------------------------------------------------------------------------
(* _monitor_edge_count: the edge-count monitor *)

MaxEdges == 20
MaxOther == 1

\* the counts the comparisons are tabulated for
CountRange == 0..(MaxEdges + 2 * MaxOther)

\* curr_conn / 0.95 >= pre_conn (line 239)
Reached95 == [a \in CountRange |-> [b \in CountRange |->
                 FloatDivGeq(a, Float095, Float095Exp, b)]]
\* x / 0.9 < pre (lines 254, 258)
Below90 == [a \in CountRange |-> [b \in CountRange |->
               ~FloatDivGeq(a, Float09, Float09Exp, b)]]

MONITOR_TIMEOUT  == 300
MONITOR_INTERVAL == 5
MONITOR_STRIKES  == 3

\* line 230-232: the monitor at its call.  samples counts the reads of the
\* edge counts, warned is the message of line 259.  drops is history, not
\* program state: how many samples in a row, up to MONITOR_STRIKES, came
\* with fewer connected edges than the sample before them.
MonitorStart ==
    [phase |-> "loop", elapsed |-> 0, conn |-> 0, deg |-> 0, down |-> 0,
     fail_count |-> 0, samples |-> 0, warned |-> FALSE, drops |-> 0]

MonitorIdle == [MonitorStart EXCEPT !.phase = "idle"]

\* lines 254-263: the verdict after the loop.  pre is pre_count, unpacked as
\* pre_conn, pre_deg, pre_down = pre_count (line 233)
monitor_verdict_strict(pre, st) ==
    IF Below90[st.conn][pre[1]] \/ Below90[st.deg][pre[2]] \/ Below90[st.down][pre[3]]
    THEN [st EXCEPT !.phase = "False"]
    ELSE [st EXCEPT !.phase = "True"]
monitor_verdict(pre, st) ==
    IF Below90[st.conn][pre[1]]
    THEN [st EXCEPT !.phase = "False"]
    ELSE [st EXCEPT !.phase = "True",
                    !.warned = Below90[st.deg][pre[2]] \/ Below90[st.down][pre[3]]]

\* the immediate pass of line 239
RecoveredAt90(curr_conn, pre_conn) == ~Below90[curr_conn][pre_conn]
Recovered(curr_conn, pre_conn) == Reached95[curr_conn][pre_conn]

monitor_pass_prev(pre, st, sample) ==
    IF ~(st.elapsed <= MONITOR_TIMEOUT) THEN monitor_verdict(pre, st)
    ELSE LET read == [st EXCEPT !.conn = sample[1], !.deg = sample[2],
                                !.down = sample[3], !.samples = @ + 1]
         IN IF Recovered(sample[1], pre[1]) THEN monitor_verdict(pre, read)
            ELSE IF ~(sample[1] >= st.conn)
                 THEN IF st.fail_count + 1 = MONITOR_STRIKES
                      THEN [read EXCEPT !.fail_count = @ + 1, !.phase = "False"]
                      ELSE [read EXCEPT !.fail_count = @ + 1,
                                        !.elapsed = @ + MONITOR_INTERVAL]
                 ELSE [read EXCEPT !.elapsed = @ + MONITOR_INTERVAL]

\* One pass of the loop (lines 235-252) on the sample just read, then the
\* verdict when the loop is left by the break of line 241; or, when the loop
\* test fails, the verdict alone.  conn is assigned the sample (line 237)
\* before it is compared with the sample (line 243).
monitor_pass(pre, st, sample) ==
    IF ~(st.elapsed <= MONITOR_TIMEOUT) THEN monitor_verdict(pre, st)
    ELSE LET read == [st EXCEPT !.conn = sample[1], !.deg = sample[2],
                                !.down = sample[3], !.samples = @ + 1,
                                !.drops = IF st.samples > 0 /\ sample[1] < st.conn
                                          THEN IF @ < MONITOR_STRIKES THEN @ + 1 ELSE @
                                          ELSE 0]
         IN IF Recovered(sample[1], pre[1]) THEN monitor_verdict(pre, read)
            ELSE IF ~(sample[1] >= read.conn)
                 THEN IF st.fail_count + 1 = MONITOR_STRIKES
                      THEN [read EXCEPT !.fail_count = @ + 1, !.phase = "False"]
                      ELSE [read EXCEPT !.fail_count = @ + 1,
                                        !.elapsed = @ + MONITOR_INTERVAL]
                 ELSE [read EXCEPT !.elapsed = @ + MONITOR_INTERVAL]

\* What _get_active_edge_count can give on the promoted node: (connected,
\* down, degraded) of the fleet the former active reported (edges): no more
\* edges than the fleet has, and up to MaxOther of them down or degraded.
Fleet == edges[1] + edges[2] + edges[3]
Samples == {x \in (0..Fleet) \X (0..MaxOther) \X (0..MaxOther) :
               x[1] + x[2] + x[3] <= Fleet}

\* _monitor_edge_count pass by pass, and what promote_handler does with its
\* result (lines 504-511).  An error of the read reaches no handler.
MonitorPass ==
    /\ pc = "monitor"
    /\ UNCHANGED <<argVars, authSt, waitVars, estRemain, promIter, results, cfgOut,
                   pre_count, nodeVars, cmds, gate>>
    /\ IF ~(monSt.elapsed <= MONITOR_TIMEOUT)
       THEN /\ monSt' = monitor_verdict(pre_count, monSt)
            /\ IF monSt'.phase = "True" THEN Exit(0) ELSE Exit(1)
            /\ UNCHANGED reads
       ELSE /\ reads' = reads \cup {<<"veco", "get_edge_count">>}
            /\ \E a \in {"ok"} \cup ReadErrors :
                 IF a # "ok" THEN Abort(a) /\ UNCHANGED monSt
                 ELSE \E sample \in Samples :
                        /\ monSt' = monitor_pass(pre_count, monSt, sample)
                        /\ CASE monSt'.phase = "True"  -> Exit(0)
                             [] monSt'.phase = "False" -> Exit(1)
                             [] OTHER                  -> Goto("monitor")

-----------------------------------------------------------------------------
(* promote *)

\* range(5), line 362
PROMOTE_WAITS == 5

\* _get_active_standby_fqdn (lines 175-192) on the replication status read:
\* "" or "None" (no return is reached), or the peer's address
get_active_standby_fqdn(n, r, dr) ==
    IF r \in {STANDALONE, ZOMBIE} THEN ""
    ELSE IF dr = UNCONFIGURED_DR THEN ""
    ELSE IF dr # STANDBY_RUNNING THEN ""
    ELSE IF r = ACTIVE THEN Peer(n)
    ELSE IF r = STANDBY THEN Peer(n)
    ELSE "None"

\* promote_handler up to the peer's address (lines 489-494)
PromoteHandler ==
    /\ pc = "promote"
    /\ UNCHANGED <<argVars, authSt, waitVars, locVars, nodeVars, cmds, gate>>
    /\ reads' = reads \cup {<<"veco", "get_replication_status_raw">>}
    /\ \E rs \in {"ok"} \cup ReadErrors :
         IF rs # "ok" THEN Abort(rs)
         ELSE IF get_active_standby_fqdn("veco", role["veco"], drState["veco"])
                   \in {"", "None"}
              THEN Exit(1)
              ELSE Goto("prom_baseline")

\* lines 496-499: the login to the peer and the baseline read from it; the
\* test of line 496 is on a non-empty tuple and never true
PromoteBaselineSkipped ==
    /\ pc = "prom_baseline"
    /\ Goto("prom_veco")
    /\ UNCHANGED <<argVars, authSt, waitVars, locVars, nodeVars, logVars>>
PromoteBaseline ==
    /\ pc = "prom_baseline"
    /\ UNCHANGED <<argVars, authSt, waitVars, estRemain, promIter, results, cfgOut,
                   monSt, nodeVars, cmds, gate>>
    /\ \E la \in CmdAnswers, ea \in {"ok"} \cup ReadErrors :
         /\ reads' = reads \cup {<<"secondary", "login">>}
                           \cup (IF la = "ok" THEN {<<"secondary", "get_edge_count">>}
                                 ELSE {})
         /\ CASE la # "ok" -> Abort(la) /\ UNCHANGED pre_count
              [] ea # "ok" -> Abort(ea) /\ UNCHANGED pre_count
              [] OTHER     -> Goto("prom_veco") /\ pre_count' = edges

\* line 503 and the call of line 504
SkipMonitor ==
    /\ Exit(0)
    /\ monSt' = monSt
StartMonitor ==
    /\ Goto("monitor")
    /\ monSt' = MonitorStart

\* lines 355-361: whether an answer of promote_vco_to_active leaves promote_veco
\* as an exception; the except clause lets none out
PromoteRaisesOut(ca) == ca # "ok"
PromoteRaises(ca) == FALSE

\* promote_veco up to its first wait (lines 351-364, 366-372); cfgOut keeps
\* how the promote call answered.  A promote call
\* that raised VcoRequestError may have been applied all the same; the node
\* promoted goes to STANDALONE and its peer to ZOMBIE.
PromoteVeco ==
    /\ pc = "prom_veco"
    /\ UNCHANGED <<argVars, authSt, estRemain, results, pre_count, role, role0,
                   drState, users, props, clients, edges, gate>>
    /\ reads' = reads \cup {<<"veco", "get_vco_role">>}
    /\ \E rr \in RoleReads("veco"), ca \in CmdAnswers, applied \in BOOLEAN :
         CASE rr \in ReadErrors ->
                /\ Abort(rr)
                /\ UNCHANGED <<waitVars, promIter, monSt, pending, cmds, cfgOut>>
           [] rr \in {STANDBY, STANDBY_CANDIDATE} /\ PromoteRaises(ca) ->
                /\ Abort(ca)
                /\ cmds' = Append(cmds, <<"veco", "promote_vco_to_active", "none">>)
                /\ cfgOut' = [NoCfg EXCEPT !.node = "veco", !.current = rr,
                                           !.target = STANDALONE, !.ret = "raised",
                                           !.err = ca, !.cmd = "promote_vco_to_active"]
                /\ UNCHANGED <<waitVars, promIter, monSt, pending>>
           [] rr \in {STANDBY, STANDBY_CANDIDATE} ->
                /\ ca = "ok" => applied
                /\ cmds' = Append(cmds, <<"veco", "promote_vco_to_active", "none">>)
                /\ cfgOut' = [NoCfg EXCEPT !.node = "veco", !.current = rr,
                                           !.target = STANDALONE,
                                           !.ret = IF ca = "ok" THEN "True" ELSE "raised",
                                           !.err = IF ca = "ok" THEN "none" ELSE ca,
                                           !.cmd = "promote_vco_to_active"]
                /\ pending' = IF applied
                              THEN [n \in Nodes |->
                                      IF n = "veco" THEN STANDALONE ELSE ZOMBIE]
                              ELSE pending
                /\ promIter' = 1
                /\ StartWait("prom_loop", "veco", STANDALONE)
                /\ UNCHANGED monSt
           [] rr = STANDALONE ->
                StartMonitor /\ UNCHANGED <<waitVars, promIter, pending, cmds, cfgOut>>
           [] OTHER ->
                Exit(5) /\ UNCHANGED <<waitVars, promIter, monSt, pending, cmds, cfgOut>>

\* lines 362-365 and 501-514: the next wait of the loop, the last wait, and
\* what promote_handler does with the last wait's result
PromoteAfterWait ==
    /\ pc = "wfr_ret" /\ wfrSite \in {"prom_loop", "prom_final"}
    /\ UNCHANGED <<argVars, authSt, estRemain, results, cfgOut, pre_count, nodeVars,
                   logVars>>
    /\ IF wfrSite = "prom_loop"
       THEN /\ promIter' = IF promIter < PROMOTE_WAITS THEN promIter + 1 ELSE promIter
            /\ StartWait(IF promIter < PROMOTE_WAITS THEN "prom_loop" ELSE "prom_final",
                         "veco", STANDALONE)
            /\ UNCHANGED monSt
       ELSE /\ promIter' = 0
            /\ ClearWait
            /\ IF wfrRet = "True" THEN StartMonitor ELSE Exit(5) /\ UNCHANGED monSt

-----------------------------------------------------------------------------
(* The program: one run of the script against its two nodes *)

MaxClients == 1

\* the state of the process before main runs
ProcessStart ==
    /\ pc = "main" /\ exitCode = -1 /\ unhandled = "none"
    /\ authSt = AuthIdle
    /\ NoWait
    /\ estRemain = 0 /\ promIter = 0
    /\ results = [n \in {"veco"} |-> FALSE]
    /\ cfgOut = NoCfg
    /\ pre_count = <<0, 0, 0>>
    /\ monSt = MonitorIdle
    /\ cmds = <<>> /\ reads = {}
    /\ gate = [n \in Nodes |-> "none"]

\* the replication state a node in role r reports when nothing else is said
DrStateOf(r) ==
    CASE r \in {ACTIVE, STANDBY} -> STANDBY_RUNNING
      [] r = ZOMBIE              -> OTHER_DR
      [] OTHER                   -> UNCONFIGURED_DR

\* what the runs that do not reach the step leave fixed
NoUsers == [n \in Nodes |-> "absent"]
NoProps == [i \in DOMAIN PropertyNames |-> "absent"]
NoEdges == <<1, 0, 0>>

\* break [--secondary]
InitBreak ==
    /\ action = "break" /\ hasSecondary \in BOOLEAN /\ force = FALSE /\ ipsValid = TRUE
    /\ role \in [Nodes -> RemoteRoles]
    /\ ~hasSecondary => role["secondary"] = UNCONFIGURED
    /\ role0 = role
    /\ pending = [n \in Nodes |-> "none"]
    /\ drState = [n \in Nodes |-> DrStateOf(role[n])]
    /\ users = NoUsers /\ props = NoProps /\ clients = 0 /\ edges = NoEdges
    /\ ProcessStart

\* revert
InitRevert ==
    /\ action = "revert" /\ hasSecondary = FALSE /\ force = FALSE /\ ipsValid = TRUE
    /\ role \in [Nodes -> RemoteRoles]
    /\ role["secondary"] = UNCONFIGURED
    /\ role0 = role
    /\ pending = [n \in Nodes |-> "none"]
    /\ drState = [n \in Nodes |-> DrStateOf(role[n])]
    /\ users = NoUsers /\ props = NoProps /\ clients = 0 /\ edges = NoEdges
    /\ ProcessStart

\* establish --secondary [--force]
InitEstablish ==
    /\ action = "establish"
    /\ hasSecondary \in BOOLEAN /\ force \in BOOLEAN /\ ipsValid \in BOOLEAN
    /\ role \in [Nodes -> RemoteRoles]
    /\ role["veco"] \in {STANDALONE, ACTIVE, UNCONFIGURED}
    /\ role0 = role
    /\ pending = [n \in Nodes |-> "none"]
    /\ drState = [n \in Nodes |-> DrStateOf(role[n])]
    /\ users \in {NoUsers, [n \in Nodes |-> "other"]}
    /\ props \in {NoProps, <<"differs", "same", "absent">>}
    /\ clients \in 0..MaxClients
    /\ edges = NoEdges
    /\ ~(hasSecondary /\ ipsValid) =>
          /\ ~force /\ clients = 0
          /\ role = [n \in Nodes |-> STANDALONE]
    /\ (users # NoUsers \/ props # NoProps \/ ~hasSecondary \/ ~ipsValid) =>
          /\ users # NoUsers <=> props # NoProps
          /\ role["secondary"] \in {STANDALONE, UNCONFIGURED}
          /\ role["veco"] = STANDALONE
    /\ ProcessStart

\* the role of the peer of a node in role r
PeerRoleOf(r) ==
    CASE r \in {STANDBY, STANDBY_CANDIDATE} -> ACTIVE
      [] r = ACTIVE                         -> STANDBY
      [] r = STANDALONE                     -> ZOMBIE
      [] OTHER                              -> STANDALONE

\* promote
InitPromote ==
    /\ action = "promote" /\ hasSecondary = FALSE /\ force = FALSE /\ ipsValid = TRUE
    /\ role \in [Nodes -> RemoteRoles]
    /\ role["secondary"] = PeerRoleOf(role["veco"])
    /\ role0 = role
    /\ pending = [n \in Nodes |-> "none"]
    /\ drState \in [Nodes -> DrStates]
    /\ drState["secondary"] = DrStateOf(role["secondary"])
    /\ users = NoUsers /\ props = NoProps /\ clients = 0
    /\ edges \in {<<2, 1, 1>>, <<3, 0, 1>>}
    /\ ProcessStart

Init == InitBreak \/ InitRevert \/ InitEstablish \/ InitPromote

Wait == WaitForRolePass \/ \E n \in Nodes : RemoteConverges(n)

NextBreak ==
    \/ Main
    \/ BreakHandler
    \/ BreakNode
    \/ BreakAfterWait
    \/ BreakDone
    \/ Wait

NextRevert ==
    \/ Main
    \/ RevertNode
    \/ RevertAfterWait
    \/ Wait

NextEstablish ==
    \/ Main
    \/ EstablishHandler
    \/ EstablishPrepare
    \/ EstablishUser
    \/ EstablishProps
    \/ EstablishAssign
    \/ EstablishPoll
    \/ EstablishConfigureDr
    \/ RevertNode
    \/ RevertAfterWait
    \/ Wait

NextPromote ==
    \/ Main
    \/ PromoteHandler
    \/ PromoteBaseline
    \/ PromoteVeco
    \/ PromoteAfterWait
    \/ MonitorPass
    \/ Wait

Next ==
    \/ Main
    \/ BreakHandler
    \/ BreakNode
    \/ BreakAfterWait
    \/ BreakDone
    \/ RevertNode
    \/ RevertAfterWait
    \/ EstablishHandler
    \/ EstablishPrepare
    \/ EstablishUser
    \/ EstablishProps
    \/ EstablishAssign
    \/ EstablishPoll
    \/ EstablishConfigureDr
    \/ PromoteHandler
    \/ PromoteBaseline
    \/ PromoteVeco
    \/ PromoteAfterWait
    \/ MonitorPass
    \/ Wait

Spec == Init /\ [][Next]_vars

\* one workflow at a time
SpecBreak     == InitBreak /\ [][NextBreak]_vars
SpecRevert    == InitRevert /\ [][NextRevert]_vars
SpecEstablish == InitEstablish /\ [][NextEstablish]_vars
SpecPromote   == InitPromote /\ [][NextPromote]_vars

-----------------------------------------------------------------------------
(* The parts on their own, each run against every answer of the node *)

\* the variables a part does not use, at rest
Rest ==
    /\ action = "none" /\ hasSecondary = FALSE /\ force = FALSE /\ ipsValid = TRUE
    /\ exitCode = -1 /\ unhandled = "none"
    /\ estRemain = 0 /\ promIter = 0
    /\ results = [n \in {"veco"} |-> FALSE]
    /\ cfgOut = NoCfg
    /\ users = NoUsers /\ props = NoProps /\ clients = 0
    /\ cmds = <<>> /\ reads = {}
    /\ gate = [n \in Nodes |-> "none"]
    /\ role0 = role
    /\ drState = [n \in Nodes |-> DrStateOf(role[n])]

\* check_auth_status, pass by pass
InitAuth ==
    /\ pc = "gate" /\ authSt = AuthStart
    /\ NoWait /\ monSt = MonitorIdle /\ pre_count = <<0, 0, 0>> /\ edges = NoEdges
    /\ role = [n \in Nodes |-> STANDALONE]
    /\ pending = [n \in Nodes |-> "none"]
    /\ Rest

AuthPass ==
    /\ pc = "gate" /\ authSt.phase = "loop"
    /\ \E a \in AuthAnswers : authSt' = check_auth_pass(authSt, a)
    /\ UNCHANGED <<argVars, ctlVars, waitVars, locVars, nodeVars, logVars>>

NextAuth == AuthPass

SpecAuth == InitAuth /\ [][NextAuth]_vars

\* _configure_role, called with any target until it has issued MaxCalls commands
MaxCalls == 2

InitRole ==
    /\ pc = "role" /\ authSt = AuthIdle
    /\ NoWait /\ monSt = MonitorIdle /\ pre_count = <<0, 0, 0>> /\ edges = NoEdges
    /\ role \in [Nodes -> RemoteRoles]
    /\ role["secondary"] = UNCONFIGURED
    /\ pending = [n \in Nodes |-> "none"]
    /\ Rest

ConfigureRoleStep ==
    /\ pc = "role" /\ Len(cmds) < MaxCalls
    /\ \E target \in VcoRole, rr \in RoleReads("veco"), ca \in CmdAnswers :
         AfterConfigureRole(ConfigureRoleCall("veco", target, rr, ca))
    /\ UNCHANGED <<argVars, ctlVars, authSt, waitVars, estRemain, promIter, results, pre_count,
                   monSt, role, role0, drState, users, props, clients, edges, gate>>

NextRole == ConfigureRoleStep \/ RemoteConverges("veco")

SpecRole == InitRole /\ [][NextRole]_vars

\* _wait_for_role_change on a node that is in any role and may be on its way
\* to another
InitWfr ==
    /\ pc = "wfr" /\ authSt = AuthIdle
    /\ wfrSite = "none" /\ wfrNode = "veco" /\ wfrTarget \in {STANDALONE, STANDBY}
    /\ roleRemain = ROLE_CHANGE_MAX_WAIT_TIME /\ wfrRet = "none" /\ wfrEntry = 0
    /\ monSt = MonitorIdle /\ pre_count = <<0, 0, 0>> /\ edges = NoEdges
    /\ role \in [Nodes -> RemoteRoles]
    /\ role["secondary"] = UNCONFIGURED
    /\ pending \in [Nodes -> {"none", STANDALONE, STANDBY}]
    /\ pending["secondary"] = "none"
    /\ Rest

NextWfr == WaitForRolePass \/ RemoteConverges("veco")

\* each pass of the loop returns: the calls it makes return or raise
SpecWfr == InitWfr /\ [][NextWfr]_vars /\ WF_vars(WaitForRolePass)

\* _monitor_edge_count against baselines of up to MaxEdges connected edges
Baselines == {0, 1, MaxEdges \div 2, MaxEdges}

InitMonitor ==
    /\ pc = "monitor" /\ authSt = AuthIdle
    /\ NoWait
    /\ monSt = MonitorStart
    /\ pre_count \in {<<b, MaxOther, MaxOther>> : b \in Baselines}
    /\ edges = pre_count
    /\ role = [n \in Nodes |-> IF n = "veco" THEN STANDALONE ELSE ZOMBIE]
    /\ pending = [n \in Nodes |-> "none"]
    /\ Rest

NextMonitor == MonitorPass

SpecMonitor == InitMonitor /\ [][NextMonitor]_vars

\* the preparation of lines 284-288 on nodes in any prior state, and
\* _update_or_create_properties applied once more to the node it left
PropStates == {"absent", "differs", "same"}
UserStates == {"absent", "other", "supplied"}

InitPrepare ==
    /\ action = "none" /\ hasSecondary = TRUE /\ force = FALSE /\ ipsValid = TRUE
    /\ pc = "est_user_veco" /\ exitCode = -1 /\ unhandled = "none"
    /\ authSt = AuthIdle /\ NoWait
    /\ estRemain = 0 /\ promIter = 0
    /\ results = [n \in {"veco"} |-> FALSE]
    /\ cfgOut = NoCfg /\ pre_count = <<0, 0, 0>> /\ monSt = MonitorIdle
    /\ role = [n \in Nodes |-> IF n = "veco" THEN STANDALONE ELSE UNCONFIGURED]
    /\ role0 = role
    /\ pending = [n \in Nodes |-> "none"]
    /\ drState = [n \in Nodes |-> UNCONFIGURED_DR]
    /\ users \in [Nodes -> UserStates]
    /\ props \in [DOMAIN PropertyNames -> PropStates]
    /\ clients = 0 /\ edges = NoEdges
    /\ cmds = <<>> /\ reads = {}
    /\ gate = [n \in Nodes |-> "True"]

UpsertAgain ==
    /\ pc = "est_assign"
    /\ UNCHANGED <<argVars, authSt, waitVars, locVars, role, role0, pending, drState,
                   users, clients, edges, gate>>
    /\ UpsertProps("veco", "prepared")

NextPrepare == EstablishUser \/ EstablishProps \/ UpsertAgain

SpecPrepare == InitPrepare /\ [][NextPrepare]_vars

\* Every workflow and the login gate pass by pass, with the script running on:
\* every call it makes returns or raises.  Nothing is asked of the nodes.
InitLive == Init \/ InitAuth

Script ==
    \/ Main
    \/ BreakHandler
    \/ BreakNode
    \/ BreakAfterWait
    \/ BreakDone
    \/ RevertNode
    \/ RevertAfterWait
    \/ EstablishHandler
    \/ EstablishPrepare
    \/ EstablishUser
    \/ EstablishProps
    \/ EstablishAssign
    \/ EstablishPoll
    \/ EstablishConfigureDr
    \/ PromoteHandler
    \/ PromoteBaseline
    \/ PromoteVeco
    \/ PromoteAfterWait
    \/ MonitorPass
    \/ WaitForRolePass
    \/ AuthPass

NextLive == Script \/ \E n \in Nodes : RemoteConverges(n)

SpecLive == InitLive /\ [][NextLive]_vars /\ WF_vars(Script)

-----------------------------------------------------------------------------
(* establish against nodes that honour what they accept *)

\* establish --secondary on a primary that is STANDALONE and a secondary that
\* is UNCONFIGURED and has no clients
InitHonoured ==
    /\ action = "establish"
    /\ hasSecondary = TRUE /\ force \in BOOLEAN /\ ipsValid = TRUE
    /\ role = [n \in Nodes |-> IF n = "veco" THEN STANDALONE ELSE UNCONFIGURED]
    /\ role0 = role
    /\ pending = [n \in Nodes |-> "none"]
    /\ drState = [n \in Nodes |-> UNCONFIGURED_DR]
    /\ users \in {NoUsers, [n \in Nodes |-> "other"]}
    /\ props \in {NoProps, <<"differs", "same", "absent">>}
    /\ clients = 0
    /\ edges = NoEdges
    /\ ProcessStart

\* A step against such nodes: no call raises an error that ends the run, every
\* login gate lets the script in, a node that accepted set_vco_role_standby is
\* STANDBY before the window of the poll has passed and says so when read, and
\* configure_veco_for_dr, once issued, is carried out.
Honoured ==
    /\ unhandled' = "none"
    /\ \A n \in Nodes : gate'[n] \in {"none", "True"}
    /\ pc \in {"main", "establish"} => pc' # "exit"
    /\ (pc = "est_poll" /\ pending["secondary"] # "none") => estRemain' > 0
    /\ (pc = "est_poll" /\ role["secondary"] = STANDBY /\ estRemain > 0) => pc' = "est_dr"
    /\ (pc = "est_dr" /\ cmds' # cmds) => pc' = "exit"

NextHonoured ==
    \/ Main /\ Honoured
    \/ EstablishHandler /\ Honoured
    \/ EstablishPrepare /\ Honoured
    \/ EstablishUser /\ Honoured
    \/ EstablishProps /\ Honoured
    \/ EstablishAssign /\ Honoured
    \/ EstablishPoll /\ Honoured
    \/ EstablishConfigureDr /\ Honoured
    \/ RemoteConverges("secondary") /\ Honoured

\* the script runs on, and the node carries out what it accepted
SpecHonoured == InitHonoured /\ [][NextHonoured]_vars /\ WF_vars(NextHonoured)

-----------------------------------------------------------------------------
(* Properties *)

\* the nodes a break is asked to set to STANDALONE
Requested == IF hasSecondary THEN Nodes ELSE {"veco"}

\* the commands issued so far, as a set
Issued == {cmds[i] : i \in DOMAIN cmds}

\* C1: establish with the secondary already STANDBY at its start, whatever
\* the primary's role, issues no state-changing call to either node, and a
\* run that got as far as reading the primary's role ends with exit code 0.
C1_EstablishIdempotent ==
    (action = "establish" /\ role0["secondary"] = STANDBY) =>
        /\ cmds = <<>>
        /\ (pc = "exit" /\ unhandled = "none" /\ <<"veco", "get_vco_role">> \in reads)
              => exitCode = 0

\* C2: break ends with exit code 0 only if its result map has an entry for
\* every requested node and every entry is true.
C2_BreakAllConfirmed ==
    (action = "break" /\ pc = "exit" /\ exitCode = 0) =>
        \A n \in Requested : n \in DOMAIN results /\ results[n]

\* C3: once MONITOR_STRIKES samples in a row came with fewer connected edges
\* than the sample before, none of them at 95% of the baseline, the monitor
\* has returned failure.
C3_ThreeStrikes ==
    (pc \in {"monitor", "exit"} /\ monSt.drops >= MONITOR_STRIKES) =>
        monSt.phase = "False"

\* C4: in every pass of the monitor that reads a sample s against the baseline
\* b: s/0.95 >= b in floating point exactly when 100*s >= 95*b; if so the
\* monitor returns pass at that sample (exit code 0, no further sample), and
\* if not it returns nothing at that sample and goes on sampling.
C4_ImmediatePass ==
    [][(pc = "monitor" /\ monSt.elapsed <= MONITOR_TIMEOUT /\ unhandled' = "none") =>
          LET s == monSt'.conn
              b == pre_count[1]
          IN /\ monSt'.samples = monSt.samples + 1
             /\ Reached95[s][b] <=> 100 * s >= 95 * b
             /\ 100 * s >= 95 * b =>
                   /\ monSt'.phase = "True"
                   /\ pc' = "exit" /\ exitCode' = 0
             /\ 100 * s < 95 * b =>
                   /\ monSt'.phase = "loop"
                   /\ pc' = "monitor"]_vars

\* C4, its case: baseline 20, the first sample below 19, the second sample 19
\* (exactly 95%) ends the monitor with pass
C4_Witness ==
    /\ pc = "exit" /\ exitCode = 0
    /\ pre_count[1] = 20 /\ monSt.conn = 19 /\ monSt.samples = 2
    /\ monSt.phase = "True"

\* C5 as the spec has it: a wait that returned success read the target role
\* strictly before its deadline.
C5_ReadBeforeDeadline ==
    (pc = "wfr_ret" /\ wfrRet = "True") => roleRemain > 0

\* C5, amended: the wait returns success exactly when, in a pass whose loop
\* test found the deadline not yet reached, the read of the role gives the
\* target; that read comes after the sleep and the login gate of the pass,
\* less than ROLE_POLL_SLEEP + LOGIN_MAX_WAIT_TIME + LOGIN_RETRY_SLEEP after the
\* test.  The wait always ends, and on a node that never is in the target role
\* it ends with the timeout failure or with an error the loop does not absorb.
C5_WaitForRole ==
    /\ [](pc = "wfr_ret" /\ wfrRet = "True" =>
            /\ wfrEntry > 0
            /\ roleRemain >= wfrEntry - ROLE_POLL_SLEEP
                                - LOGIN_MAX_WAIT_TIME - LOGIN_RETRY_SLEEP)
    /\ [](pc = "wfr_ret" /\ wfrRet = "False" => roleRemain <= 0)
    /\ [][(pc = "wfr" /\ pc' = "wfr_ret") =>
             (wfrRet' = "True" <=> (roleRemain > 0 /\ role[wfrNode] = wfrTarget))]_vars
    /\ <>(pc \in {"wfr_ret", "exit"})
    /\ [](role[wfrNode] # wfrTarget) =>
          <>((pc = "wfr_ret" /\ wfrRet = "False") \/ (pc = "exit" /\ unhandled # "none"))

\* C5, its case: a success whose read of the role came at or after the deadline
C5_Witness ==
    /\ pc = "wfr_ret" /\ wfrRet = "True"
    /\ wfrEntry > 0 /\ roleRemain <= 0

\* what _configure_role answered on a read of one of the five roles, against
\* a table: the roles STANDBY and STANDALONE can be requested from
RoleTableHolds(standbyFrom, standaloneFrom) ==
    (cfgOut.ret \in {"True", "False"} /\ cfgOut.current \in VcoRole) =>
        LET allowed == \/ cfgOut.target = STANDBY /\ cfgOut.current \in standbyFrom
                       \/ cfgOut.target = STANDALONE /\ cfgOut.current \in standaloneFrom
            command == IF cfgOut.target = STANDBY THEN "set_vco_role_standby"
                       ELSE "set_vco_role_standalone"
        IN IF cfgOut.current = cfgOut.target
           THEN cfgOut.ret = "True" /\ cfgOut.cmd = "none"
           ELSE IF allowed
                THEN /\ cfgOut.ret = "True" /\ cfgOut.cmd = command
                     /\ cmds[Len(cmds)] = <<cfgOut.node, command, "none">>
                ELSE cfgOut.ret = "False" /\ cfgOut.cmd = "none"

OnlyFailedLogins == authSt.attempts = authSt.reqErrs /\ authSt.phase # "raised"

\* C7 as the spec has it: for every N, after N failed logins a login that
\* succeeds makes the gate return success at attempt N+1, every attempt
\* LOGIN_RETRY_SLEEP after the one before.
C7_EveryN ==
    (authSt.phase = "loop" /\ OnlyFailedLogins) =>
        LET st == check_auth_pass(authSt, "authenticated")
        IN st.phase = "True" /\ st.attempts = authSt.reqErrs + 1 /\ st.spaced

\* C7, amended: that holds for the N with N * LOGIN_RETRY_SLEEP below
\* LOGIN_MAX_WAIT_TIME (N <= 11); from N = 12 on the gate makes no further
\* attempt and returns failure after attempt 12.
C7_WithinMaxWait ==
    /\ (authSt.phase = "loop" /\ OnlyFailedLogins) =>
          LET st == check_auth_pass(authSt, "authenticated")
          IN IF authSt.reqErrs * LOGIN_RETRY_SLEEP < LOGIN_MAX_WAIT_TIME
             THEN /\ st.phase = "True" /\ st.attempts = authSt.reqErrs + 1 /\ st.spaced
                  /\ st.elapsed = authSt.reqErrs * LOGIN_RETRY_SLEEP
             ELSE st.phase = "False" /\ st.attempts = authSt.reqErrs
    /\ OnlyFailedLogins => authSt.reqErrs * LOGIN_RETRY_SLEEP <= LOGIN_MAX_WAIT_TIME
    /\ (authSt.phase = "True" /\ authSt.attempts = authSt.reqErrs + 1) =>
          /\ authSt.spaced
          /\ authSt.reqErrs * LOGIN_RETRY_SLEEP < LOGIN_MAX_WAIT_TIME

\* C7, its case: 11 failed logins, then success at attempt 12, 110 s in
C7_Witness ==
    /\ authSt.phase = "True" /\ authSt.reqErrs = 11 /\ authSt.attempts = 12
    /\ authSt.elapsed = 110 /\ authSt.spaced

\* C8: promote on a node that is ACTIVE makes no call to the peer (no login,
\* no read of its edge counts) and issues no command.
C8_PromoteOnActiveNoCalls ==
    (action = "promote" /\ role0["veco"] = ACTIVE) =>
        /\ \A r \in reads : r[1] # "secondary"
        /\ cmds = <<>>

\* C9: promote on a node that is STANDALONE, once it has read the node's
\* replication status, ends with exit code 0 and issues no promote command.
C9_PromoteOnStandalone ==
    (/\ action = "promote" /\ role0["veco"] = STANDALONE
     /\ pc = "exit" /\ unhandled = "none"
     /\ <<"veco", "get_replication_status_raw">> \in reads) =>
        /\ exitCode = 0
        /\ <<"veco", "promote_vco_to_active", "none">> \notin Issued

\* C10: break on primary ACTIVE, secondary STANDBY, the primary confirmed
\* STANDALONE and the read of the secondary's role raising a request error:
\* the run ends with no unhandled error, the secondary reported false.
C10_BreakSecondaryReadError ==
    (/\ action = "break" /\ hasSecondary
     /\ role0["veco"] = ACTIVE /\ role0["secondary"] = STANDBY
     /\ results["veco"]
     /\ cfgOut.node = "secondary" /\ cfgOut.ret = "raised"
     /\ cfgOut.err = VcoRequestError /\ cfgOut.cmd = "none") =>
        /\ unhandled = "none"
        /\ pc = "exit" => /\ "secondary" \in DOMAIN results
                          /\ ~results["secondary"]
                          /\ exitCode = 1

\* C11: establish on a STANDALONE primary and an UNCONFIGURED secondary with
\* no clients, against nodes that honour what they accept, ends with exit code
\* 0, the primary ACTIVE, the secondary STANDBY and replication running.
C11_EstablishSucceeds ==
    <>(/\ pc = "exit" /\ exitCode = 0
       /\ role["veco"] = ACTIVE /\ role["secondary"] = STANDBY
       /\ \A n \in Nodes : drState[n] = STANDBY_RUNNING)

\* C11, its case: the run has ended that way, with set_vco_role_standby and
\* then configure_veco_for_dr the last two commands issued
C11_Witness ==
    /\ pc = "exit" /\ exitCode = 0
    /\ role0["veco"] = STANDALONE /\ role0["secondary"] = UNCONFIGURED
    /\ role["veco"] = ACTIVE /\ role["secondary"] = STANDBY
    /\ Len(cmds) >= 2
    /\ cmds[Len(cmds) - 1] = <<"secondary", "set_vco_role_standby", "none">>
    /\ cmds[Len(cmds)] = <<"veco", "configure_veco_for_dr", "none">>

\* C12: promote ends with exit code 0 exactly when its last wait for
\* STANDALONE returned success and the monitor then passed; when the wait
\* succeeded and the monitor failed it ends with exit code 1, when the wait
\* failed with exit code 5, not 1, and the monitor is not run at all.
C12_PromoteResult ==
    /\ [](action = "promote" /\ pc = "exit" /\ unhandled = "none" =>
            /\ exitCode = 0 <=> monSt.phase = "True"
            /\ monSt.phase = "False" => exitCode = 1
            /\ exitCode = 5 => monSt = MonitorIdle)
    /\ [][(pc = "wfr_ret" /\ wfrSite = "prom_final" /\ pc' # pc) =>
             IF wfrRet = "True"
             THEN pc' = "monitor" /\ monSt' = MonitorStart
             ELSE pc' = "exit" /\ exitCode' = 5 /\ monSt' = MonitorIdle]_vars
    /\ [][(monSt.phase = "idle" /\ monSt'.phase # "idle") =>
             \/ pc = "wfr_ret" /\ wfrSite = "prom_final" /\ wfrRet = "True"
             \/ pc = "prom_veco" /\ role["veco"] = STANDALONE]_vars

\* C12, its case: the last wait succeeded, the monitor ran and failed, and the
\* run ended with exit code 1 on a node that is STANDALONE
C12_Witness ==
    /\ action = "promote" /\ pc = "exit" /\ exitCode = 1 /\ unhandled = "none"
    /\ monSt.phase = "False" /\ monSt.samples > 0
    /\ role["veco"] = STANDALONE /\ role0["veco"] = STANDBY

\* the role-change commands (set_vco_role_standby, set_vco_role_standalone)
\* issued to node n so far
RoleCommandsTo(n) ==
    {c \in Issued : c[1] = n /\ c[2] \in {"set_vco_role_standby", "set_vco_role_standalone"}}

\* C13: establish and promote issue set_vco_role_standalone to neither node,
\* on any path.
C13_NoRollback ==
    action \in {"establish", "promote"} =>
        \A n \in Nodes : <<n, "set_vco_role_standalone", "none">> \notin Issued

\* the exit code of an authentication failure (lines 597, 601)
AuthFailureCodes == {1}

\* the run ended because the login to the primary failed
AuthFailed ==
    pc = "exit" /\ unhandled = "none" /\ reads = {<<"veco", "login">>}

\* the run ended because promote found replication not configured
DrNotConfigured ==
    /\ action = "promote" /\ pc = "exit" /\ unhandled = "none"
    /\ reads = {<<"veco", "login">>, <<"veco", "get_replication_status_raw">>}

\* C14: an authentication failure and 'DR not configured' end with non-zero
\* exit codes that differ from each other.
C14_DistinctExitCodes ==
    /\ AuthFailed => exitCode \in AuthFailureCodes
    /\ DrNotConfigured => exitCode \notin AuthFailureCodes \cup {0}

\* C15 as the spec has it: set_vco_role_standby goes to the secondary only
\* with force or no clients; with clients and without force establish fails
\* and no role-change command ever goes to the secondary.
C15_ClientsPresentAlways ==
    /\ <<"secondary", "set_vco_role_standby", "none">> \in Issued => (force \/ clients = 0)
    /\ (action = "establish" /\ ~force /\ clients > 0) =>
          /\ RoleCommandsTo("secondary") = {}
          /\ pc = "exit" => exitCode # 0

\* C15, amended: the second half holds when the secondary was UNCONFIGURED or
\* STANDALONE at the start, the roles for which the clients are counted.
C15_ClientsPresent ==
    /\ <<"secondary", "set_vco_role_standby", "none">> \in Issued => (force \/ clients = 0)
    /\ (/\ action = "establish" /\ ~force /\ clients > 0
        /\ role0["secondary"] \in {UNCONFIGURED, STANDALONE}) =>
          /\ RoleCommandsTo("secondary") = {}
          /\ pc = "exit" => exitCode # 0

\* C15, its case: clients on an UNCONFIGURED secondary, no force: the run got
\* to the count of the clients and ended there with exit code 1
C15_Witness ==
    /\ action = "establish" /\ ~force /\ clients > 0
    /\ role0["secondary"] = UNCONFIGURED
    /\ <<"secondary", "get_client_count">> \in reads
    /\ pc = "exit" /\ exitCode = 1 /\ unhandled = "none"
    /\ RoleCommandsTo("secondary") = {}

\* C16: revert issues set_vco_role_standalone only to a node that was ACTIVE,
\* STANDBY or UNCONFIGURED; on a node that was STANDALONE or STANDBY_CANDIDATE
\* it issues nothing and does not end with exit code 0; and once the role is
\* being read no VcoRequestError ends the run unhandled.
C16_Revert ==
    action = "revert" =>
        /\ cmds # <<>> =>
              /\ role0["veco"] \in {ACTIVE, STANDBY, UNCONFIGURED}
              /\ \A c \in Issued : c = <<"veco", "set_vco_role_standalone", "none">>
        /\ role0["veco"] \in {STANDALONE, STANDBY_CANDIDATE} =>
              /\ cmds = <<>>
              /\ pc \notin {"wfr", "wfr_ret"}
              /\ pc = "exit" => exitCode # 0
        /\ <<"veco", "get_vco_role">> \in reads => unhandled # VcoRequestError
        /\ (pc = "exit" /\ exitCode = 0) => role["veco"] = STANDALONE

\* C16, its case: revert on a STANDALONE node read the role and ended with
\* exit code 4, nothing issued
C16_Witness ==
    /\ action = "revert" /\ role0["veco"] = STANDALONE
    /\ <<"veco", "get_vco_role">> \in reads
    /\ pc = "exit" /\ exitCode = 4 /\ unhandled = "none" /\ cmds = <<>>

StepOf(c) ==
    CASE c[2] \in {"delete_operator_user", "create_operator_superuser"} ->
              IF c[1] = "veco" THEN 1 ELSE 2
      [] c[2] \in {"update_system_property", "create_system_property"} -> 3
      [] c[2] = "set_vco_role_standby"  -> 4
      [] c[2] = "configure_veco_for_dr" -> 5
      [] OTHER -> 6

\* C18: in establish the commands come in the order of the steps: the user on
\* the primary, the user on the secondary, the properties (on the primary),
\* set_vco_role_standby on the secondary, configure_veco_for_dr on the
\* primary; set_vco_role_standby comes after both users were created and the
\* properties read; configure_veco_for_dr is issued only once a pass of the
\* poll, begun before the deadline, read the secondary as STANDBY; and the
\* poll's timeout ends the run with exit code 3 and nothing more issued.
C18_EstablishOrder ==
    /\ [](action = "establish" =>
            /\ \A i, j \in DOMAIN cmds : i < j => StepOf(cmds[i]) <= StepOf(cmds[j])
            /\ \A c \in Issued : /\ StepOf(c) \in {1, 3, 5} => c[1] = "veco"
                                 /\ StepOf(c) \in {2, 4} => c[1] = "secondary"
            /\ <<"secondary", "set_vco_role_standby", "none">> \in Issued =>
                  /\ \A n \in Nodes : <<n, "create_operator_superuser", "none">> \in Issued
                  /\ <<"veco", "get_system_property">> \in reads)
    /\ [][(<<"veco", "configure_veco_for_dr", "none">> \notin Issued
           /\ <<"veco", "configure_veco_for_dr", "none">> \in Issued') => pc = "est_dr"]_vars
    /\ [][(pc # "est_dr" /\ pc' = "est_dr") =>
             /\ pc = "est_poll" /\ estRemain > 0
             /\ role["secondary"] = STANDBY
             /\ <<"secondary", "get_vco_role">> \in reads']_vars
    /\ [][(pc = "est_poll" /\ estRemain <= 0 /\ pc' # pc) =>
             pc' = "exit" /\ exitCode' = 3 /\ cmds' = cmds]_vars
    /\ [][pc = "exit" => cmds' = cmds]_vars

\* C18, its case: a run that issued every step and ended with exit code 0
C18_Witness ==
    /\ action = "establish" /\ pc = "exit" /\ exitCode = 0
    /\ {StepOf(c) : c \in Issued} = {1, 2, 3, 4, 5}
    /\ <<"veco", "delete_operator_user", "none">> \in Issued

\* the promote command
PromoteCmd == <<"veco", "promote_vco_to_active", "none">>

\* the calls made to the peer so far
PeerReads == {r \in reads : r[1] = "secondary"}

\* C19: when the promote command is issued the baseline has been read from the
\* peer, after the login to the peer; the baseline is read in one place, which
\* the run passes once, before the command, and after the command the peer is
\* not called and the baseline does not change.
C19_BaselineBeforePromote ==
    /\ [](action = "promote" =>
            /\ <<"secondary", "get_edge_count">> \in reads => <<"secondary", "login">> \in reads
            /\ PromoteCmd \in Issued =>
                  /\ <<"secondary", "get_edge_count">> \in reads
                  /\ pre_count = edges)
    /\ [][(action = "promote" /\ (PeerReads' # PeerReads \/ pre_count' # pre_count)) =>
             /\ pc = "prom_baseline" /\ cmds = <<>>
             /\ PeerReads = {}]_vars
    /\ [][pc' = "prom_baseline" => pc = "promote"]_vars
    /\ [][pc = "prom_baseline" => pc' \in {"prom_veco", "exit"}]_vars
    /\ [][pc' = "prom_veco" => pc = "prom_baseline" /\ <<"secondary", "get_edge_count">> \in reads']_vars

\* C19, its case: the command issued, the baseline (2, 1, 1) of the peer held
C19_Witness ==
    /\ action = "promote" /\ PromoteCmd \in Issued
    /\ pre_count = <<2, 1, 1>>
    /\ PeerReads = {<<"secondary", "login">>, <<"secondary", "get_edge_count">>}

\* C20: whether the promote call returns or raises VcoRequestError, the run
\* goes on to the first wait for STANDALONE, with the whole wait ahead and no
\* unhandled error, and the last wait's result alone decides between the
\* monitor and exit code 5.
C20_PromoteErrorNotFatal ==
    /\ [][(pc = "prom_veco" /\ cmds' # cmds) =>
             /\ cfgOut'.cmd = "promote_vco_to_active"
             /\ cfgOut'.ret \in {"True", "raised"}
             /\ pc' = "wfr" /\ unhandled' = "none"
             /\ wfrSite' = "prom_loop" /\ wfrNode' = "veco" /\ wfrTarget' = STANDALONE
             /\ roleRemain' = ROLE_CHANGE_MAX_WAIT_TIME]_vars
    /\ [][(cfgOut.cmd = "promote_vco_to_active" /\ pc = "wfr_ret"
           /\ wfrSite = "prom_final" /\ pc' # pc) =>
             IF wfrRet = "True" THEN pc' = "monitor"
             ELSE pc' = "exit" /\ exitCode' = 5]_vars

\* C20, its case: the call raised, the node was promoted all the same, and
\* the run ended with exit code 0
C20_Witness ==
    /\ cfgOut.cmd = "promote_vco_to_active" /\ cfgOut.ret = "raised"
    /\ cfgOut.err = VcoRequestError
    /\ pc = "exit" /\ exitCode = 0 /\ role["veco"] = STANDALONE

\* the three errors _wait_for_role_change names in its except clause
MidTransitionErrors == {VcoRequestError, VcoResponseEmpty, VcoReplicationError}

\* C21: in every pass of _wait_for_role_change begun before the deadline, with
\* the gate and the read answering in any way: one of the three errors, raised
\* by the gate or by the read, leaves the wait in its loop on the same node and
\* target with only the time of the pass gone; any other error ends the run
\* unhandled at that pass; and a pass without error that reads the target
\* returns success, whatever the passes before it met.
C21_WaitAbsorbs ==
    /\ [][\A g \in GateOutcomes, rr \in RoleReads(wfrNode) :
            (pc = "wfr" /\ roleRemain > 0 /\ WaitPassOn(g, rr)) =>
               LET err == IF g.ret = "raised" THEN g.err
                          ELSE IF rr \in ReadErrors THEN rr ELSE "none"
               IN /\ err \in MidTransitionErrors =>
                        /\ pc' = "wfr" /\ unhandled' = "none" /\ wfrRet' = "none"
                        /\ wfrNode' = wfrNode /\ wfrTarget' = wfrTarget
                        /\ roleRemain' = roleRemain - ROLE_POLL_SLEEP - g.elapsed
                  /\ err \notin MidTransitionErrors \cup {"none"} =>
                        pc' = "exit" /\ unhandled' = err /\ wfrRet' = "none"
                  /\ (err = "none" /\ rr = wfrTarget) =>
                        pc' = "wfr_ret" /\ wfrRet' = "True"]_vars
    /\ [](unhandled \notin MidTransitionErrors)

\* C21, its case: a node in the target role all along, and a wait that
\* returned success at a later pass than its first: the passes before met
\* errors, and the wait went on
C21_Witness ==
    /\ pc = "wfr_ret" /\ wfrRet = "True"
    /\ role0[wfrNode] = wfrTarget /\ role = role0
    /\ wfrEntry > 0 /\ wfrEntry < ROLE_CHANGE_MAX_WAIT_TIME

\* C22: after the promote command the wait for STANDALONE is repeated at most
\* PROMOTE_WAITS times, a wait of the repetition that returned success is the
\* last of the repetition and the final wait follows it, and the final wait's
\* result alone decides between the monitor and exit code 5.
C22_PromoteWaits ==
    /\ [](action = "promote" => promIter <= PROMOTE_WAITS)
    /\ [][(pc = "wfr_ret" /\ wfrSite = "prom_loop" /\ wfrRet = "True" /\ pc' # pc) =>
             pc' = "wfr" /\ wfrSite' = "prom_final"]_vars
    /\ [][(pc = "wfr_ret" /\ wfrSite = "prom_loop" /\ promIter = PROMOTE_WAITS
           /\ pc' # pc) => pc' = "wfr" /\ wfrSite' = "prom_final"]_vars
    /\ [][(pc = "wfr_ret" /\ wfrSite = "prom_final" /\ pc' # pc) =>
             (wfrRet = "True" /\ pc' = "monitor")
                \/ (wfrRet = "False" /\ pc' = "exit" /\ exitCode' = 5)]_vars

\* C23: establish on a secondary that is neither UNCONFIGURED, STANDALONE nor
\* STANDBY (ACTIVE, STANDBY_CANDIDATE, ZOMBIE) goes no further than the read of
\* the secondary's role: it issues no command to either node, changes no node,
\* and does not end with exit code 0; once the role is read it ends with exit
\* code 1.
C23_EstablishFailsFast ==
    (action = "establish"
        /\ role0["secondary"] \notin {UNCONFIGURED, STANDALONE, STANDBY}) =>
        /\ cmds = <<>>
        /\ role = role0 /\ pending = [n \in Nodes |-> "none"]
        /\ pc \in {"main", "establish", "est_prepare", "exit"}
        /\ \A r \in reads : r[2] \in {"login", "get_vco_role"}
        /\ pc = "exit" => exitCode # 0
        /\ (pc = "exit" /\ unhandled = "none" /\ <<"secondary", "get_vco_role">> \in reads)
              => exitCode = 1

\* C23, its case: the secondary a STANDBY_CANDIDATE, its role read, exit code 1
C23_Witness ==
    /\ action = "establish" /\ role0["secondary"] = STANDBY_CANDIDATE
    /\ <<"secondary", "get_vco_role">> \in reads
    /\ pc = "exit" /\ exitCode = 1 /\ unhandled = "none" /\ cmds = <<>>

\* the longest a call of the login gate takes: its last sleep begins before
\* the deadline
GateLongest == LOGIN_MAX_WAIT_TIME + LOGIN_RETRY_SLEEP

\* C24: whatever the nodes answer, every run of a workflow ends with an exit
\* and every call of the login gate returns or raises.  The gate, once
\* LOGIN_MAX_WAIT_TIME has elapsed, returns failure with no further login;
\* every pass of _wait_for_role_change, of the poll of establish, of the
\* monitor and of the gate that stays in its loop moves the clock towards the
\* deadline by its sleep at least; and each of the loops, tested after its
\* deadline, is left with no further call to a node.
C24_Terminates ==
    /\ <>(pc = "exit" \/ (pc = "gate" /\ authSt.phase # "loop"))
    /\ [][(pc = "gate" /\ authSt.phase = "loop") =>
             IF authSt.elapsed >= LOGIN_MAX_WAIT_TIME
             THEN authSt'.phase = "False" /\ authSt'.attempts = authSt.attempts
             ELSE /\ authSt'.attempts = authSt.attempts + 1
                  /\ authSt'.phase = "loop" =>
                        authSt'.elapsed >= authSt.elapsed + AUTH_RETRY_SLEEP]_vars
    /\ [](authSt.phase = "False" => authSt.elapsed >= LOGIN_MAX_WAIT_TIME)
    /\ [](authSt.elapsed < GateLongest)
    /\ [][(pc = "wfr" /\ pending' = pending) =>
             IF roleRemain > 0
             THEN roleRemain' <= roleRemain - ROLE_POLL_SLEEP
             ELSE pc' = "wfr_ret" /\ wfrRet' = "False" /\ reads' = reads]_vars
    /\ [](roleRemain > 0 - ROLE_POLL_SLEEP - GateLongest)
    /\ [][(pc = "est_poll" /\ pending' = pending) =>
             IF estRemain > 0
             THEN pc' = "est_poll" => estRemain' <= estRemain - ESTABLISH_POLL_SLEEP
             ELSE pc' = "exit" /\ exitCode' = 3 /\ reads' = reads]_vars
    /\ [](estRemain > 0 - ESTABLISH_POLL_SLEEP - GateLongest)
    /\ [][(pc = "monitor" /\ pending' = pending) =>
             IF monSt.elapsed <= MONITOR_TIMEOUT
             THEN pc' = "monitor" => monSt'.elapsed = monSt.elapsed + MONITOR_INTERVAL
             ELSE pc' = "exit" /\ reads' = reads /\ monSt'.samples = monSt.samples]_vars
    /\ [](monSt.elapsed <= MONITOR_TIMEOUT + MONITOR_INTERVAL)
    /\ [](promIter <= PROMOTE_WAITS)

\* C24, its case: a promote whose node never became STANDALONE: the six waits
\* ran to their deadlines and the run ended with exit code 5
C24_Witness ==
    /\ action = "promote" /\ PromoteCmd \in Issued
    /\ role["veco"] = role0["veco"]
    /\ pc = "exit" /\ exitCode = 5 /\ unhandled = "none"

\* the commands a step added to those issued before it
Added == SubSeq(cmds', Len(cmds) + 1, Len(cmds'))

\* the commands on properties issued so far
PropertyWrites == {c \in Issued : c[3] # "none"}

\* C25: an upsert that returns leaves every property of the list on the node
\* with the requested value, having created exactly those that were absent,
\* updated exactly those that held another value and written nothing for those
\* that held the value already; no step takes a property off the node and no
\* command on a property is anything but a create or an update; and the same
\* upsert applied again issues nothing.
C25_Upsert ==
    /\ [][(pc \in {"est_props", "est_assign"} /\ pc' \notin {pc, "exit"}) =>
             LET made == {Added[i] : i \in DOMAIN Added}
             IN /\ SubSeq(cmds', 1, Len(cmds)) = cmds
                /\ \A i \in DOMAIN PropertyNames :
                     /\ props'[i] = "same"
                     /\ <<"veco", "create_system_property", PropertyNames[i]>> \in made
                           <=> props[i] = "absent"
                     /\ <<"veco", "update_system_property", PropertyNames[i]>> \in made
                           <=> props[i] = "differs"
                /\ Len(Added) = Cardinality({i \in DOMAIN props : props[i] # "same"})]_vars
    /\ [][(pc = "est_assign" /\ pc' = "prepared") => cmds' = cmds /\ props' = props]_vars
    /\ [][\A i \in DOMAIN props : props'[i] \in {props[i], "same"}]_vars
    /\ [](\A c \in PropertyWrites :
             c[1] = "veco" /\ c[2] \in {"create_system_property", "update_system_property"})

\* C25, its case: the upsert applied twice to a node that had one property
\* absent, one with another value and one with the value, one create and one
\* update issued in all
C25_Witness ==
    /\ pc = "prepared"
    /\ Cardinality(PropertyWrites) = 2
    /\ {c[2] : c \in PropertyWrites} = {"create_system_property", "update_system_property"}
    /\ \A i \in DOMAIN props : props[i] = "same"

\* the places of cmds at which command c is
PlacesOf(c) == {i \in DOMAIN cmds : cmds[i] = c}

\* C26: the user step, when it returns, leaves the replication user on the
\* node with the supplied password and the other node's user as it was; it
\* issued one create alone when the node had no such user, and a delete followed
\* by one create when it had one, whatever its password; no node is sent more
\* than one create, and once both steps are done each node has been sent one.
C26_ReplicationUser ==
    /\ [][(pc \in {"est_user_veco", "est_user_secondary"} /\ pc' \notin {pc, "exit"}) =>
             LET n == IF pc = "est_user_veco" THEN "veco" ELSE "secondary"
             IN /\ users'[n] = "supplied" /\ users'[Peer(n)] = users[Peer(n)]
                /\ SubSeq(cmds', 1, Len(cmds)) = cmds
                /\ Added = IF users[n] = "absent"
                           THEN <<<<n, "create_operator_superuser", "none">>>>
                           ELSE <<<<n, "delete_operator_user", "none">>,
                                  <<n, "create_operator_superuser", "none">>>>]_vars
    /\ [](\A n \in Nodes :
            /\ Cardinality(PlacesOf(<<n, "create_operator_superuser", "none">>)) <= 1
            /\ Cardinality(PlacesOf(<<n, "delete_operator_user", "none">>)) <= 1
            /\ \A i \in PlacesOf(<<n, "create_operator_superuser", "none">>),
                  j \in PlacesOf(<<n, "delete_operator_user", "none">>) : j = i - 1
            /\ pc \in {"est_props", "est_assign", "prepared"} =>
                  /\ users[n] = "supplied"
                  /\ Cardinality(PlacesOf(<<n, "create_operator_superuser", "none">>)) = 1)

\* C26, its case: both steps done, on a primary that had the user (deleted,
\* then created) and a secondary that had none (created)
C26_Witness ==
    /\ pc = "est_props"
    /\ cmds = <<<<"veco", "delete_operator_user", "none">>,
                <<"veco", "create_operator_superuser", "none">>,
                <<"secondary", "create_operator_superuser", "none">>>>
    /\ \A n \in Nodes : users[n] = "supplied"

\* C27: the promote command is issued only on a node whose replication state
\* is STANDBY_RUNNING and whose role is STANDBY or STANDBY_CANDIDATE, and on
\* such a node, of either role, a run that read the replication status and met
\* no error issues it; on a node that is STANDALONE or ZOMBIE, or whose
\* replication state is UNCONFIGURED, promote makes no call to the peer, issues
\* nothing and ends with an exit code that is neither 0 nor the 5 of a failed
\* transition.
C27_PromotePreconditions ==
    /\ [][(PromoteCmd \notin Issued /\ PromoteCmd \in Issued') =>
             /\ drState["veco"] = STANDBY_RUNNING
             /\ role["veco"] \in {STANDBY, STANDBY_CANDIDATE}]_vars
    /\ [](/\ action = "promote" /\ pc = "exit" /\ unhandled = "none"
          /\ <<"veco", "get_replication_status_raw">> \in reads
          /\ role0["veco"] \in {STANDBY, STANDBY_CANDIDATE}
          /\ PromoteCmd \notin Issued
          => drState["veco"] # STANDBY_RUNNING)
    /\ [](/\ action = "promote" /\ PromoteCmd \notin Issued
          /\ (role0["veco"] \in {STANDALONE, ZOMBIE} \/ drState["veco"] = UNCONFIGURED_DR)
          => /\ PeerReads = {} /\ cmds = <<>>
             /\ pc = "exit" => exitCode \notin {0, 5})

\* C28: no command has gone to a node, and no role has been read from it, on
\* which the login gate was not called before; and every pass of
\* _wait_for_role_change and of the poll of establish that goes through its
\* sleep calls the gate on the node it polls, and reads the role only if the
\* gate did not raise.
C28_GateFirst ==
    /\ [](\A c \in Issued : gate[c[1]] # "none")
    /\ [](\A r \in reads : r[2] = "get_vco_role" => gate[r[1]] # "none")
    /\ [][(pc = "wfr" /\ roleRemain' # roleRemain) =>
             /\ roleRemain' <= roleRemain - ROLE_POLL_SLEEP
             /\ gate'[wfrNode] \in {"True", "False", "raised"}
             /\ <<wfrNode, "login">> \in reads'
             /\ gate'[wfrNode] = "raised" => reads' \ reads \subseteq {<<wfrNode, "login">>}]_vars
    /\ [][(pc = "est_poll" /\ estRemain > 0 /\ pending' = pending) =>
             /\ gate'["secondary"] \in {"True", "False", "raised"}
             /\ <<"secondary", "login">> \in reads'
             /\ gate'["secondary"] = "raised" =>
                   reads' \ reads \subseteq {<<"secondary", "login">>}]_vars

\* C28, its case: a break of both nodes that has sent its command to the
\* secondary, after the gate on it, and is past a pass of the wait on it
C28_Witness ==
    /\ action = "break"
    /\ <<"secondary", "set_vco_role_standalone", "none">> \in Issued
    /\ gate["secondary"] = "True"
    /\ pc = "wfr" /\ wfrNode = "secondary" /\ roleRemain < ROLE_CHANGE_MAX_WAIT_TIME

C30_NoCallAfterGateTimeout ==
    /\ [][(action = "break" /\ pc = "break_secondary" /\ pc' # pc) =>
             gate["secondary"] # "False"]_vars
    /\ [][(action = "break" /\ cmds' # cmds /\ Added # <<>>) =>
             \A i \in DOMAIN Added :
                 Added[i][1] = "secondary" => gate["secondary"] # "False"]_vars
    /\ [][(pc = "wfr" /\ roleRemain' # roleRemain /\ gate'[wfrNode] = "False") =>
             /\ <<wfrNode, "get_vco_role">> \notin reads' \ reads
             /\ wfrRet' # "True"]_vars

=============================================================================
